---- MODULE Spec2Model ----
(***************************************************************************)
(* Model of scripts/organize_samples.py: SampleOrganizer and main().       *)
(* One run of main(): setup_directories, organize_samples per supplied     *)
(* label, generate_metadata, print_summary.  File contents are byte        *)
(* sequences, the source directories and the I/O faults are the inputs.    *)
(***************************************************************************)
EXTENDS Integers, Sequences, FiniteSets, TLC

\* Number of distinct .exe names a source directory may hold.
MaxFiles == 2
\* Number of transient I/O faults (read error, failed or torn copy, failed
\* metadata write) the environment injects in one run.
MaxFaults == 1

\* Longest file name the destination filesystem accepts (POSIX NAME_MAX);
\* shutil.copy2 raises OSError past it.
NAME_MAX == 255
\* file_hash[:16]
PrefixLen == 16

Labels == {"malware", "benign"}

\* File names.  Name 0 is "notes.txt"; name 1 is an .exe name of 231
\* characters (too long once prefixed for malware, just short enough for
\* benign); every other name is a short .exe name.
Names == 0..MaxFiles
Suffix(n) == IF n = 0 THEN ".txt" ELSE ".exe"
NameLen(n) == IF n = 1 THEN 231 ELSE 6
LabelLen(l) == IF l = "malware" THEN 7 ELSE 6

\* File contents: the single byte 'M', and two images that start with
\* 'M','Z' (77, 90).
Contents == { <<77>>, <<77, 90, 1>>, <<77, 90, 2>> }
TxtContent == <<77, 90, 1>>

\* A source directory: missing, empty, or a map from the names present to
\* content; a directory that holds files holds notes.txt among them.
NoDir == [exists |-> FALSE, files |-> <<>>]
EmptyDir == [exists |-> TRUE, files |-> <<>>]
SourceDirs ==
    {NoDir, EmptyDir} \cup
    {[exists |-> TRUE, files |-> f] :
        f \in UNION { [S -> Contents] : S \in {T \in SUBSET Names : 0 \in T} }}

VARIABLES
    args,         \* labels for which main() was given a source directory
    src,          \* src[l]: the source directory of label l
    pc,           \* position of main()
    exe_files,    \* the candidates glob listed in the running organize_samples
    visited,      \* the candidates the loop of line 92 has gone through
    idx,          \* 1-based position of the loop in exe_files
    seen_hashes,  \* the set of line 83
    stats,        \* self.stats
    dest,         \* files under <base>/original: records [dir, name, data]
    metaFile,     \* <base>/metadata/dataset_info.json
    metadata,     \* the dict built by generate_metadata
    outcome,      \* history: what became of each candidate
    faults        \* history: transient I/O faults injected so far

vars == <<args, src, pc, exe_files, visited, idx, seen_hashes, stats, dest, metaFile,
          metadata, outcome, faults>>

----
\* Pure functions of the program.

\* Take(s, k): the first k items of s (bytes f.read(k) returns, s[:k]).
Take(s, k) == SubSeq(s, 1, IF k < Len(s) THEN k ELSE Len(s))

FirstByteOnly(content) == Take(content, 1) = <<77>>

\* is_pe_file on a readable file.
is_pe_file(content) == Take(content, 2) = <<77, 90>>

\* hashlib.sha256(...).hexdigest(): collision-free on whole contents (the
\* tail stands for the 48 hex characters after the first 16), while the
\* 16-character prefix alone may coincide for different contents.
get_file_hash(content) == [head |-> Len(content), tail |-> content]

\* file_hash[:16]
Prefix16(h) == h.head

NewNameWithoutSource(label, h, name) == <<label, Prefix16(h), 0>>

\* new_name of line 112 and its length in characters.
NewName(label, h, name) == <<label, Prefix16(h), name>>
NewNameLen(label, name) == LabelLen(label) + 1 + PrefixLen + 1 + NameLen(name)

GlobAll(S) == S

\* source_path.glob('*.exe') on the set of names present in a directory.
GlobExe(S) == {n \in S : Suffix(n) = ".exe"}

\* shutil.copy2 cannot create a destination whose name is too long.
NameTooLong(label, name) == NewNameLen(label, name) > NAME_MAX

\* All enumeration orders of a set of names.
Orders(S) ==
    {s \in [1..Cardinality(S) -> S] : \A i, j \in 1..Cardinality(S) :
        s[i] = s[j] => i = j}

\* self.stats[...] += 1
CountError(s) == [s EXCEPT !.errors = @ + 1]
CountDuplicateAsError(s) == [s EXCEPT !.duplicates = @ + 1, !.errors = @ + 1]
CountDuplicate(s) == [s EXCEPT !.duplicates = @ + 1]
CountAccepted(s, label) == [s EXCEPT ![label] = @ + 1]

KeepSeen(previous) == previous

\* seen_hashes = set() at line 83, given the set left by an earlier call.
NewSeen(previous) == {}

ExceptAbort(next) == "crashed"

\* The except clause of lines 121-123: the loop goes on at position next.
ExceptContinue(next) == next

\* Writing a file at a path replaces what was there.
WriteFile(fs, dir, name, data) ==
    {f \in fs : ~(f.dir = dir /\ f.name = name)} \cup
    {[dir |-> dir, name |-> name, data |-> data]}

NoRecord == [statistics |-> "none"]

ZeroStats == [malware |-> 0, benign |-> 0, duplicates |-> 0, errors |-> 0]

----
Init ==
    /\ args \in (SUBSET Labels) \ {{}}
    /\ src \in [Labels -> SourceDirs]
    /\ \A l \in Labels : l \notin args => src[l] = NoDir
    /\ \A l \in Labels :
          0 \in DOMAIN src[l].files => src[l].files[0] = TxtContent
    /\ pc = "setup"
    /\ exe_files = {}
    /\ visited = {}
    /\ idx = 0
    /\ seen_hashes = {}
    /\ stats = ZeroStats
    /\ dest = {}
    /\ metaFile = [state |-> "absent"]
    /\ metadata = NoRecord
    /\ outcome = [l \in Labels |-> [n \in Names |-> "none"]]
    /\ faults = 0

\* Positions of main().
CallPc(l) == IF l = "malware" THEN "call_malware" ELSE "call_benign"
LoopPc(l) == IF l = "malware" THEN "loop_malware" ELSE "loop_benign"
AfterCall(l) == IF l = "malware" THEN "call_benign" ELSE "metadata"

\* main(), lines 221-225.
SetupDirectories ==
    /\ pc = "setup"
    /\ pc' = "call_malware"
    /\ UNCHANGED <<args, src, exe_files, visited, idx, seen_hashes, stats, dest,
                   metaFile, metadata, outcome, faults>>

\* main(), lines 228 and 231: no directory was given for the label.
SkipLabel(l) ==
    /\ pc = CallPc(l)
    /\ l \notin args
    /\ pc' = AfterCall(l)
    /\ UNCHANGED <<args, src, exe_files, visited, idx, seen_hashes, stats, dest,
                   metaFile, metadata, outcome, faults>>

\* organize_samples, lines 76-78.
SourceMissing(l) ==
    /\ pc = CallPc(l)
    /\ l \in args
    /\ ~src[l].exists
    /\ pc' = AfterCall(l)
    /\ UNCHANGED <<args, src, exe_files, visited, idx, seen_hashes, stats, dest,
                   metaFile, metadata, outcome, faults>>

\* organize_samples, lines 83-90.
NoExeFiles(l) ==
    /\ pc = CallPc(l)
    /\ l \in args
    /\ src[l].exists
    /\ GlobExe(DOMAIN src[l].files) = {}
    /\ seen_hashes' = NewSeen(seen_hashes)
    /\ pc' = AfterCall(l)
    /\ UNCHANGED <<args, src, exe_files, visited, idx, stats, dest, metaFile,
                   metadata, outcome, faults>>

\* organize_samples, lines 83-92.  The order of the list is the order in
\* which the loop draws the candidates from exe_files.
BeginLoop(l) ==
    /\ pc = CallPc(l)
    /\ l \in args
    /\ src[l].exists
    /\ GlobExe(DOMAIN src[l].files) # {}
    /\ seen_hashes' = NewSeen(seen_hashes)
    /\ exe_files' = GlobExe(DOMAIN src[l].files)
    /\ visited' = {}
    /\ idx' = 1
    /\ pc' = LoopPc(l)
    /\ UNCHANGED <<args, src, stats, dest, metaFile, metadata, outcome,
                   faults>>

\* The loop of line 92 moves past candidate n to the next one, or the call
\* returns.
Advance(l, n) ==
    IF visited \cup {n} # exe_files
    THEN /\ idx' = idx + 1
         /\ visited' = visited \cup {n}
         /\ exe_files' = exe_files
         /\ pc' = LoopPc(l)
    ELSE /\ idx' = 0
         /\ visited' = {}
         /\ exe_files' = {}
         /\ pc' = AfterCall(l)

\* The same, reached through the except clause.
AdvanceFromExcept(l, n) ==
    IF visited \cup {n} # exe_files
    THEN /\ idx' = idx + 1
         /\ visited' = visited \cup {n}
         /\ exe_files' = exe_files
         /\ pc' = ExceptContinue(LoopPc(l))
    ELSE /\ idx' = 0
         /\ visited' = {}
         /\ exe_files' = {}
         /\ pc' = ExceptContinue(AfterCall(l))

\* The loop is at candidate n of label l.
AtFile(l, n) == pc = LoopPc(l) /\ n \in exe_files \ visited
Mark(l, n, what) == outcome' = [outcome EXCEPT ![l][n] = what]
Fault == faults < MaxFaults /\ faults' = faults + 1

\* Lines 95-98: the header is not 'MZ'.
RejectNotPE(l, n) ==
    /\ AtFile(l, n)
    /\ ~is_pe_file(src[l].files[n])
    /\ stats' = CountError(stats)
    /\ Mark(l, n, "rejected")
    /\ Advance(l, n)
    /\ UNCHANGED <<args, src, seen_hashes, dest, metaFile, metadata, faults>>

\* Lines 58-63 and 95-98: the file cannot be opened or read, is_pe_file
\* returns False.
RejectUnreadable(l, n) ==
    /\ AtFile(l, n)
    /\ Fault
    /\ stats' = CountError(stats)
    /\ Mark(l, n, "rejected")
    /\ Advance(l, n)
    /\ UNCHANGED <<args, src, seen_hashes, dest, metaFile, metadata>>

\* Lines 101 and 121-123: get_file_hash raises while reading.
HashError(l, n) ==
    /\ AtFile(l, n)
    /\ is_pe_file(src[l].files[n])
    /\ Fault
    /\ stats' = CountError(stats)
    /\ Mark(l, n, "hash_error")
    /\ AdvanceFromExcept(l, n)
    /\ UNCHANGED <<args, src, seen_hashes, dest, metaFile, metadata>>

\* Lines 104-107.
Duplicate(l, n) ==
    /\ AtFile(l, n)
    /\ is_pe_file(src[l].files[n])
    /\ get_file_hash(src[l].files[n]) \in seen_hashes
    /\ stats' = CountDuplicate(stats)
    /\ Mark(l, n, "duplicate")
    /\ Advance(l, n)
    /\ UNCHANGED <<args, src, seen_hashes, dest, metaFile, metadata, faults>>

\* Lines 109-116 and 121-123: shutil.copy2 raises before it creates the
\* destination, because the new name is too long or on a transient fault.
CopyError(l, n) ==
    /\ AtFile(l, n)
    /\ is_pe_file(src[l].files[n])
    /\ get_file_hash(src[l].files[n]) \notin seen_hashes
    /\ seen_hashes' = seen_hashes \cup {get_file_hash(src[l].files[n])}
    /\ \/ NameTooLong(l, n) /\ faults' = faults
       \/ ~NameTooLong(l, n) /\ Fault
    /\ stats' = CountError(stats)
    /\ Mark(l, n, "copy_error")
    /\ AdvanceFromExcept(l, n)
    /\ UNCHANGED <<args, src, dest, metaFile, metadata>>

\* Lines 109-116 and 121-123: shutil.copy2 raises after it created the
\* destination and wrote the first byte of it.
CopyTorn(l, n) ==
    /\ AtFile(l, n)
    /\ is_pe_file(src[l].files[n])
    /\ get_file_hash(src[l].files[n]) \notin seen_hashes
    /\ ~NameTooLong(l, n)
    /\ Fault
    /\ seen_hashes' = seen_hashes \cup {get_file_hash(src[l].files[n])}
    /\ dest' = WriteFile(dest, l,
                         NewName(l, get_file_hash(src[l].files[n]), n),
                         Take(src[l].files[n], 1))
    /\ stats' = CountError(stats)
    /\ Mark(l, n, "copy_torn")
    /\ AdvanceFromExcept(l, n)
    /\ UNCHANGED <<args, src, metaFile, metadata>>

\* Lines 109-119.
Accept(l, n) ==
    /\ AtFile(l, n)
    /\ is_pe_file(src[l].files[n])
    /\ get_file_hash(src[l].files[n]) \notin seen_hashes
    /\ ~NameTooLong(l, n)
    /\ seen_hashes' = seen_hashes \cup {get_file_hash(src[l].files[n])}
    /\ dest' = WriteFile(dest, l,
                         NewName(l, get_file_hash(src[l].files[n]), n),
                         src[l].files[n])
    /\ stats' = CountAccepted(stats, l)
    /\ Mark(l, n, "accepted")
    /\ Advance(l, n)
    /\ UNCHANGED <<args, src, metaFile, metadata, faults>>

\* organize_samples as a function: the loop of lines 92-123 from position i
\* of the given order, without transient faults.  st holds self.stats, the
\* seen set and the digests accepted.
RECURSIVE RunLoop(_, _, _, _)
RunLoop(l, order, i, st) ==
    IF i > Len(order) THEN st
    ELSE LET c == src[l].files[order[i]]
             h == get_file_hash(c)
         IN  RunLoop(l, order, i + 1,
                 IF ~is_pe_file(c)
                 THEN [st EXCEPT !.stats = CountError(@)]
                 ELSE IF h \in st.seen
                 THEN [st EXCEPT !.stats = CountDuplicate(@)]
                 ELSE IF NameTooLong(l, order[i])
                 THEN [st EXCEPT !.seen = @ \cup {h},
                                 !.stats = CountError(@)]
                 ELSE [st EXCEPT !.seen = @ \cup {h},
                                 !.stats = CountAccepted(@, l),
                                 !.accepted = [@ EXCEPT ![l] = @ \cup {h}]])

\* One call of organize_samples from main(), with the candidates enumerated
\* in the order given, without transient faults.
RunCall(l, order, st) ==
    IF l \notin args \/ ~src[l].exists \/ GlobExe(DOMAIN src[l].files) = {}
    THEN st
    ELSE RunLoop(l, order, 1, [st EXCEPT !.seen = NewSeen(@)])

\* main(), lines 228-232, as a function of the enumeration order of each
\* label's candidates.
RunMain(orders) ==
    RunCall("benign", orders["benign"],
        RunCall("malware", orders["malware"],
            [stats |-> ZeroStats, seen |-> {},
             accepted |-> [l \in Labels |-> {}]]))

\* len(list(orig_path.glob('*.exe'))), line 137: every destination name ends
\* with the source name, which ends with .exe.
DiskCount(l) == Cardinality({f \in dest : f.dir = l /\ Suffix(f.name[3]) = ".exe"})

\* generate_metadata, lines 127-138.
BuildMetadata ==
    [statistics |-> stats,
     malware_count |-> DiskCount("malware"),
     benign_count |-> DiskCount("benign")]

\* generate_metadata, lines 127-142: open(metadata_file, 'w') truncates.
MetaOpen ==
    /\ pc = "metadata"
    /\ metadata' = BuildMetadata
    /\ metaFile' = [state |-> "empty"]
    /\ pc' = "writing"
    /\ UNCHANGED <<args, src, exe_files, visited, idx, seen_hashes, stats, dest,
                   outcome, faults>>

\* Line 142: open raises, main() ends with the exception.
MetaOpenFail ==
    /\ pc = "metadata"
    /\ Fault
    /\ metadata' = BuildMetadata
    /\ pc' = "crashed"
    /\ UNCHANGED <<args, src, exe_files, visited, idx, seen_hashes, stats, dest,
                   metaFile, outcome>>

\* Line 143: a part of the JSON text reaches the file.
MetaFlush ==
    /\ pc = "writing"
    /\ metaFile.state = "empty"
    /\ metaFile' = [state |-> "truncated"]
    /\ UNCHANGED <<args, src, pc, exe_files, visited, idx, seen_hashes, stats, dest,
                   metadata, outcome, faults>>

\* Line 143: a write raises (or the process is killed), main() ends.
MetaWriteFail ==
    /\ pc = "writing"
    /\ Fault
    /\ pc' = "crashed"
    /\ UNCHANGED <<args, src, exe_files, visited, idx, seen_hashes, stats, dest,
                   metaFile, metadata, outcome>>

\* Lines 143-146: the with block ends, the whole record is in the file.
MetaClose ==
    /\ pc = "writing"
    /\ metaFile' = [state |-> "complete", record |-> metadata]
    /\ pc' = "summary"
    /\ UNCHANGED <<args, src, exe_files, visited, idx, seen_hashes, stats, dest,
                   metadata, outcome, faults>>

\* print_summary, lines 148-176, and the end of main().
PrintSummary ==
    /\ pc = "summary"
    /\ pc' = "done"
    /\ UNCHANGED <<args, src, exe_files, visited, idx, seen_hashes, stats, dest,
                   metaFile, metadata, outcome, faults>>

Next ==
    \/ SetupDirectories
    \/ \E l \in Labels : SkipLabel(l)
    \/ \E l \in Labels : SourceMissing(l)
    \/ \E l \in Labels : NoExeFiles(l)
    \/ \E l \in Labels : BeginLoop(l)
    \/ \E l \in Labels, n \in Names : RejectNotPE(l, n)
    \/ \E l \in Labels, n \in Names : RejectUnreadable(l, n)
    \/ \E l \in Labels, n \in Names : HashError(l, n)
    \/ \E l \in Labels, n \in Names : Duplicate(l, n)
    \/ \E l \in Labels, n \in Names : CopyError(l, n)
    \/ \E l \in Labels, n \in Names : CopyTorn(l, n)
    \/ \E l \in Labels, n \in Names : Accept(l, n)
    \/ MetaOpen
    \/ MetaOpenFail
    \/ MetaFlush
    \/ MetaWriteFail
    \/ MetaClose
    \/ PrintSummary

Spec == Init /\ [][Next]_vars

TypeOK ==
    /\ args \subseteq Labels
    /\ stats \in [malware : Nat, benign : Nat, duplicates : Nat, errors : Nat]
    /\ faults \in 0..MaxFaults

----
\* Vocabulary of the properties, stated on the inputs and the history.

HasMZ(c) == Len(c) >= 2 /\ c[1] = 77 /\ c[2] = 90
Candidates(l) == {n \in DOMAIN src[l].files : n # 0}
ContentOf(l, n) == src[l].files[n]
Group(l, c) == {n \in Candidates(l) : ContentOf(l, n) = c}
Processed(l) == {n \in Names : outcome[l][n] # "none"}
Accepted(l) == {n \in Names : outcome[l][n] = "accepted"}
ErrorOutcomes == {"rejected", "hash_error", "copy_error", "copy_torn"}
FailureOutcomes == {"hash_error", "copy_error", "copy_torn"}
Returned(l) ==
    IF l = "malware"
    THEN pc \in {"call_benign", "loop_benign", "metadata", "writing",
                 "summary", "done", "crashed"}
    ELSE pc \in {"metadata", "writing", "summary", "done", "crashed"}
Handled(l, n) == outcome[l][n] = "none" /\ outcome'[l][n] # "none"
Copied(l, n) ==
    \E f \in dest : f.dir = l /\ f.name[3] = n /\ f.data = ContentOf(l, n)
Fits(l, n) == LabelLen(l) + 18 + NameLen(n) <= 255
Total(s) == s.malware + s.benign + s.duplicates + s.errors

----
\* C1: when organize_samples has returned for a label, every group of
\* candidates with the 'MZ' signature and identical content has exactly one
\* accepted member, copied to original/<label>, and every other member is a
\* counted duplicate that was not copied.  Stated for runs without any
\* transient fault and for groups with a member whose new name fits.
C1_ExactlyOneAccepted ==
    \A l \in Labels :
        (Returned(l) /\ faults = 0) =>
            \A c \in Contents :
                (HasMZ(c) /\ \E n \in Group(l, c) : Fits(l, n)) =>
                    /\ Cardinality(Group(l, c) \cap Accepted(l)) = 1
                    /\ \A n \in Group(l, c) \cap Accepted(l) : Copied(l, n)
                    /\ \A n \in Group(l, c) \ Accepted(l) :
                          /\ outcome[l][n] = "duplicate"
                          /\ ~\E f \in dest : f.dir = l /\ f.name[3] = n

\* C2: every candidate handled moves exactly one counter by one, the one of
\* its outcome (errors, duplicates, or the label's counter together with the
\* copy); the counters move at no other step; so the counters add up to the
\* number of candidates handled, and to all candidates once the call returned.
C2_OneOutcomeStep ==
    /\ \A l \in Labels, n \in Names :
          Handled(l, n) =>
              /\ outcome'[l][n] \in ErrorOutcomes \cup {"duplicate", "accepted"}
              /\ outcome'[l][n] \in ErrorOutcomes =>
                    stats' = [stats EXCEPT !.errors = @ + 1]
              /\ outcome'[l][n] = "duplicate" =>
                    stats' = [stats EXCEPT !.duplicates = @ + 1] /\ dest' = dest
              /\ outcome'[l][n] = "accepted" =>
                    /\ stats' = [stats EXCEPT ![l] = @ + 1]
                    /\ \E f \in dest' \ dest :
                          f.dir = l /\ f.data = ContentOf(l, n)
              /\ \A m \in Labels, k \in Names :
                    Handled(m, k) => m = l /\ k = n
    /\ stats' # stats => \E l \in Labels, n \in Names : Handled(l, n)

C2_CountersAddUp ==
    /\ Total(stats) = Cardinality(Processed("malware"))
                      + Cardinality(Processed("benign"))
    /\ \A l \in Labels : Returned(l) => Processed(l) = Candidates(l)
    /\ \A l \in Labels : stats[l] = Cardinality(Accepted(l))

C2_ExactlyOneOutcome == [][C2_OneOutcomeStep]_vars /\ []C2_CountersAddUp

C2_Witness ==
    /\ pc = "done"
    /\ stats.malware = 1 /\ stats.duplicates = 1 /\ stats.errors = 1
    /\ Cardinality(Processed("malware")) + Cardinality(Processed("benign")) = 3

\* C3: a candidate whose first two bytes are not 'MZ', and any candidate
\* is_pe_file reports as not valid, is handled by one step that adds one to
\* errors and leaves the other counters, the destination and the seen set
\* as they were.
C3_RejectStep ==
    \A l \in Labels, n \in Names :
        (Handled(l, n) /\ (~HasMZ(ContentOf(l, n)) \/ outcome'[l][n] = "rejected")) =>
            /\ outcome'[l][n] = "rejected"
            /\ stats' = [stats EXCEPT !.errors = @ + 1]
            /\ dest' = dest
            /\ seen_hashes' = seen_hashes

C3_NotPENeverCopied == [][C3_RejectStep]_vars

C3_Witness ==
    \E l \in Labels :
        /\ \A n \in Candidates(l) :
              ContentOf(l, n) = <<77>> /\ outcome[l][n] = "rejected"
        /\ Cardinality(Candidates(l)) = 2
        /\ faults = 0
        /\ stats.errors = 2
        /\ dest = {}

----
\* C4: the seen set of a call holds only digests of that call's own
\* candidates; and at the end of a run without faults the duplicates counter
\* counts only repetitions inside one label, and a content with the 'MZ'
\* signature present under both labels (in files whose new names fit) has
\* exactly one accepted file and one destination file under each label.
DuplicatesWithin(l) ==
    Cardinality({n \in Candidates(l) : HasMZ(ContentOf(l, n))})
    - Cardinality({ContentOf(l, n) : n \in {k \in Candidates(l) : HasMZ(ContentOf(l, k))}})

C5_FailureStep ==
    \A l \in Labels, n \in Names :
        (Handled(l, n) /\ outcome'[l][n] \in FailureOutcomes) =>
            /\ stats' = [stats EXCEPT !.errors = @ + 1]
            /\ Processed(l) \cup {n} # Candidates(l) =>
                  pc' = pc /\ idx' = idx + 1
            /\ Processed(l) \cup {n} = Candidates(l) =>
                  pc' = (IF l = "malware" THEN "call_benign" ELSE "metadata")

AllHandled == \A l \in Labels : Processed(l) = Candidates(l)

PcRank ==
    CASE pc = "setup" -> 0
      [] pc = "call_malware" -> 1
      [] pc = "loop_malware" -> 2
      [] pc = "call_benign" -> 3
      [] pc = "loop_benign" -> 4
      [] pc = "metadata" -> 5
      [] pc = "writing" -> 6
      [] pc = "summary" -> 7
      [] OTHER -> 8
Progress ==
    <<PcRank, Cardinality(Processed("malware")) + Cardinality(Processed("benign")),
      IF metaFile.state = "truncated" THEN 1 ELSE 0>>
Before(a, b) ==
    \/ a[1] < b[1]
    \/ a[1] = b[1] /\ a[2] < b[2]
    \/ a[1] = b[1] /\ a[2] = b[2] /\ a[3] < b[3]

C5_EndState ==
    /\ pc \notin {"done", "crashed"} => ENABLED Next
    /\ pc \in {"metadata", "writing", "summary", "done", "crashed"} => AllHandled
    /\ pc = "crashed" => metadata # NoRecord
    /\ (pc = "done" /\ \A l \in Labels : \A n \in Candidates(l) :
                          outcome[l][n] \in ErrorOutcomes) =>
          /\ stats.malware = 0 /\ stats.benign = 0
          /\ stats.errors = Cardinality(Candidates("malware"))
                            + Cardinality(Candidates("benign"))
          /\ metaFile.state = "complete"

C5_FailureNeverAborts ==
    /\ [][C5_FailureStep /\ Before(Progress, Progress')]_vars
    /\ []C5_EndState

C5_Witness ==
    /\ pc = "done"
    /\ stats.malware = 0 /\ stats.benign = 0 /\ stats.errors = 2
    /\ Cardinality({n \in Names : outcome["malware"][n] \in FailureOutcomes}) = 2
    /\ metaFile.state = "complete"
    /\ metaFile.record.statistics.errors = 2

\* C6: dataset_info.json holds at every moment either a whole record (the
\* new one) or is as it was before the run (here: does not exist yet); it
\* is never empty or truncated.
C6_AtomicMetadataWrite == metaFile.state \in {"absent", "complete"}

\* C7: a call of organize_samples for a label whose directory is missing or
\* holds no .exe candidate is one step that changes no counter, no
\* destination file and no outcome and returns to main(), which goes on;
\* the record written shows zero accepted and zero files for that label.
C7_NothingToDoStep ==
    \A l \in Labels :
        (pc = CallPc(l) /\ l \in args /\ Candidates(l) = {}) =>
            /\ stats' = stats
            /\ dest' = dest
            /\ outcome' = outcome
            /\ pc' = (IF l = "malware" THEN "call_benign" ELSE "metadata")

C7_RecordShowsZero ==
    metaFile.state = "complete" =>
        /\ Candidates("malware") = {} =>
              /\ metaFile.record.statistics.malware = 0
              /\ metaFile.record.malware_count = 0
        /\ Candidates("benign") = {} =>
              /\ metaFile.record.statistics.benign = 0
              /\ metaFile.record.benign_count = 0

C7_EmptySourceIsNoOp == [][C7_NothingToDoStep]_vars /\ []C7_RecordShowsZero

C7_Witness ==
    /\ pc = "done"
    /\ args = Labels
    /\ src["malware"].exists /\ DOMAIN src["malware"].files = {0}
    /\ stats.benign = 1
    /\ metaFile.state = "complete"
    /\ metaFile.record.statistics.malware = 0
    /\ metaFile.record.benign_count = 1

\* C8: at the end of a run without transient faults the counters and the
\* accepted digests of each label are those of the run that enumerates the
\* candidates of each directory in ascending name order, whatever order this
\* run enumerated them in.
Ascending(S) ==
    CHOOSE s \in Orders(S) : \A i, j \in DOMAIN s : i < j => s[i] < s[j]
AscendingOrders == [l \in Labels |-> Ascending(Candidates(l))]

C8_OrderIndependent ==
    (pc = "done" /\ faults = 0) =>
        /\ stats = RunMain(AscendingOrders).stats
        /\ \A l \in Labels :
              {get_file_hash(ContentOf(l, n)) : n \in Accepted(l)}
                  = RunMain(AscendingOrders).accepted[l]

\* C9: in the record written, the number of files found under
\* original/<label> equals the label's accepted counter.
C9_DiskCountIsAccepted ==
    metaFile.state = "complete" =>
        /\ metaFile.record.malware_count = metaFile.record.statistics.malware
        /\ metaFile.record.benign_count = metaFile.record.statistics.benign

\* C10: the destination paths of any two candidates whose copy was attempted
\* differ, and no copy replaced a destination file: the destination holds as
\* many files as copies created one.
CopyAttempted == {"accepted", "copy_error", "copy_torn"}
DestPath(l, n) == <<l, NewName(l, get_file_hash(ContentOf(l, n)), n)>>
Attempts ==
    {x \in Labels \X Names : outcome[x[1]][x[2]] \in CopyAttempted}

C10_DistinctDestinations ==
    /\ \A x, y \in Attempts :
          x # y => DestPath(x[1], x[2]) # DestPath(y[1], y[2])
    /\ Cardinality(dest)
          = Cardinality({x \in Attempts :
                            outcome[x[1]][x[2]] \in {"accepted", "copy_torn"}})

C10_Witness ==
    /\ pc = "done"
    /\ Cardinality(Accepted("benign")) = 2
    /\ Cardinality({f \in dest : f.dir = "benign"}) = 2
    /\ \A f, g \in dest : f.name[2] = g.name[2]
    /\ Cardinality(Accepted("malware")) = 1
====
